---- MODULE Spec2Model ----
(***************************************************************************)
(* Model of proteinchat/models/proteinchat_old.py (class ProteinChat):     *)
(* the embedding-fusion and prompt-assembly pipeline and the causal-LM     *)
(* training step.                                                          *)
(*                                                                         *)
(* A tensor of shape (batch, length) is a sequence of rows, each row a     *)
(* sequence; an embedding tensor (batch, length, hidden) is a sequence of  *)
(* rows of embedding vectors, a vector being the tuple <<kind, index>>     *)
(* that names what was embedded (the hidden axis plays no part in the      *)
(* plumbing).  The pretrained sub-models are frozen functions.             *)
(***************************************************************************)
EXTENDS Integers, Sequences, FiniteSets, TLC

VARIABLES
    samples,       \* the record given to forward: seq, prompt, text_input
    str_tokens,    \* the structure tuple encode_str is called with
    padding_side,  \* self.llama_tokenizer.padding_side
    out,           \* what the last call produced (or that it raised)
    first          \* what the first forward call on this instance produced

vars == <<samples, str_tokens, padding_side, out, first>>

(***************************************************************************)
(* Bounds of the model.                                                    *)
(***************************************************************************)
MaxPromptLen == 5      \* symbols (words and placeholders) in one prompt
MaxBatchPromptLen == 5 \* symbols in the prompts of one batch, together
MaxTextLen == 1        \* words in one target text
MaxSeqLen == 1         \* residues in one protein sequence / structure

BatchSizes == {1, 2}

(***************************************************************************)
(* Constants of the program and of its tokenizer.                          *)
(***************************************************************************)
max_txt_len == 32
IgnoreIndex == -100
bos_token_id == 1
eos_token_id == 2
\* self.llama_tokenizer.pad_token = self.llama_tokenizer.eos_token
pad_token_id == eos_token_id

proteinHere == "<proteinHere>"
structureHere == "<structureHere>"
end_sym == "\n"
\* a word of text: an ordinary word, or the literal text of the eos token
Words == {"a", "</s>"}

\* all sequences over S of length 0..n
SeqsUpTo(S, n) == UNION {[1..k -> S] : k \in 0..n}

RECURSIVE Flatten(_)
\* torch.cat(pieces, dim=1) on one row: the pieces one after the other
Flatten(pieces) ==
    IF pieces = <<>> THEN <<>> ELSE Head(pieces) \o Flatten(Tail(pieces))

\* torch.cat(tensors, dim=1): row b of the result is the rows b, concatenated
CatDim1(tensors) ==
    [b \in 1..Len(tensors[1]) |->
        Flatten([k \in 1..Len(tensors) |-> tensors[k][b]])]

\* tensor.shape[1] of a tensor with at least one row
Shape1(t) == Len(t[1])

MaxRowLen(rows) ==
    LET lens == {Len(rows[b]) : b \in 1..Len(rows)}
    IN  CHOOSE m \in lens : \A l \in lens : l <= m

(***************************************************************************)
(* The language model's tokenizer and embedding table.                     *)
(***************************************************************************)
\* the id of one word of text
Vocab(w) ==
    CASE w = "</s>" -> eos_token_id
      [] w = end_sym -> 13
      [] OTHER -> 29874

\* one text to ids: a bos token first when special tokens are asked for
Encode(text, add_special_tokens) ==
    (IF add_special_tokens THEN <<bos_token_id>> ELSE <<>>)
        \o [i \in 1..Len(text) |-> Vocab(text[i])]

Truncate(row, truncation, max_length) ==
    IF truncation /\ Len(row) > max_length THEN SubSeq(row, 1, max_length) ELSE row

\* n copies of v
Fill(n, v) == [i \in 1..n |-> v]

\* one row padded to length n on the tokenizer's padding side
PadRow(row, n, v, side) ==
    IF side = "right" THEN row \o Fill(n - Len(row), v)
    ELSE Fill(n - Len(row), v) \o row

\* self.llama_tokenizer(texts, return_tensors="pt", ...): the ids and the
\* attention mask as (batch, length) tensors.  Rows of unequal length make no
\* tensor: without padding the call raises.
Tokenizer(texts, add_special_tokens, padding, truncation, max_length, side) ==
    LET rows == [b \in 1..Len(texts) |->
                    Truncate(Encode(texts[b], add_special_tokens), truncation, max_length)]
        n == MaxRowLen(rows)
        ragged == \E b \in 1..Len(rows) : Len(rows[b]) # n
    IN  IF padding
        THEN [ok |-> TRUE,
              input_ids |-> [b \in 1..Len(rows) |-> PadRow(rows[b], n, pad_token_id, side)],
              attention_mask |-> [b \in 1..Len(rows) |->
                    PadRow(Fill(Len(rows[b]), 1), n, 0, side)]]
        ELSE IF ragged
        THEN [ok |-> FALSE, input_ids |-> <<>>, attention_mask |-> <<>>]
        ELSE [ok |-> TRUE, input_ids |-> rows,
              attention_mask |-> [b \in 1..Len(rows) |-> Fill(n, 1)]]

\* self.llama_model.model.embed_tokens(ids)
embed_tokens(ids) ==
    [b \in 1..Len(ids) |-> [i \in 1..Len(ids[b]) |-> <<"tok", ids[b][i]>>]]

(***************************************************************************)
(* encode_str and encode_protein.                                          *)
(***************************************************************************)
\* ~padding_mask
Invert(mask) == [b \in 1..Len(mask) |-> [i \in 1..Len(mask[b]) |-> ~mask[b][i]]]

\* Long as it would be if the attention mask were taken from ~padding_mask
LongInverted(mask) ==
    [b \in 1..Len(mask) |-> [i \in 1..Len(mask[b]) |-> IF mask[b][i] THEN 0 ELSE 1]]

\* padding_mask.long()
Long(mask) ==
    [b \in 1..Len(mask) |-> [i \in 1..Len(mask[b]) |-> IF mask[b][i] THEN 1 ELSE 0]]

\* the structure encoder and its projection: one vector per residue of coords
str_encoder(coords, encoder_padding_mask) ==
    [b \in 1..Len(coords) |-> [i \in 1..Len(coords[b]) |-> <<"str", coords[b][i]>>]]

encode_str(tokens) ==
    LET encoder_padding_mask == Invert(tokens.padding_mask)
    IN  [str_embeds |-> str_encoder(tokens.coords, encoder_padding_mask),
         atts_llama |-> Long(tokens.padding_mask),
         encoder_padding_mask |-> encoder_padding_mask]

\* the sequence encoder and its projection: the batch converter puts a cls
\* token before and an eos token after each sequence and pads to the longest
protein_encoder(seqs) ==
    [b \in 1..Len(seqs) |-> [i \in 1..(MaxRowLen(seqs) + 2) |-> <<"seq", i>>]]

\* OnesLike as it would be if the mask had one entry per residue, the cls and
\* eos positions left out
OnesPerResidue(embeds) == [b \in 1..Len(embeds) |-> Fill(Len(embeds[b]) - 2, 1)]

\* torch.ones(inputs_llama.size()[:-1])
OnesLike(embeds) == [b \in 1..Len(embeds) |-> Fill(Len(embeds[b]), 1)]

encode_protein(seqs) ==
    LET inputs_llama == protein_encoder(seqs)
    IN  [inputs_llama |-> inputs_llama, atts_llama |-> OnesLike(inputs_llama)]

(***************************************************************************)
(* prompt_list_wrap.                                                       *)
(***************************************************************************)
Markers == {proteinHere, structureHere}

RECURSIVE ReSplit(_)
\* re.split(r'(<proteinHere>|<structureHere>)', p): the text pieces with the
\* placeholders found between them, each placeholder a piece of its own
ReSplit(p) ==
    IF p = <<>> THEN << <<>> >>
    ELSE LET r == ReSplit(Tail(p))
         IN  IF Head(p) \in Markers
             THEN << <<>>, <<Head(p)>> >> \o r
             ELSE << <<Head(p)>> \o r[1] >> \o Tail(r)

\* FormatOk as it would be if only the number of pieces were tested
FormatOkLengthOnly(splits) == Len(splits) = 5

\* the test of line 229
FormatOk(splits) ==
    /\ Len(splits) = 5
    /\ splits[2] = <<proteinHere>>
    /\ splits[4] = <<structureHere>>

NoBlock == [raised |-> "none", embeds |-> <<>>, atts |-> <<>>, pieces |-> <<>>,
            masks |-> <<>>]

Raise(what) == [NoBlock EXCEPT !.raised = what]

\* MaskPieces as it would be with the two block masks exchanged
MaskPiecesSwapped(before, img, between, str, after) == <<before, str, between, img, after>>

\* the order of the five pieces in torch.cat
EmbedPieces(before, img, between, str, after) == <<before, img, between, str, after>>
MaskPieces(before, img, between, str, after) == <<before, img, between, str, after>>

\* NoPromptPieces as it would be with the structure block first
NoPromptPiecesSwapped(img, str) == <<str, img>>

\* the order of the two blocks when there is no prompt
NoPromptPieces(img, str) == <<img, str>>

\* None and the empty list are both false in `if prompt:` and are the empty
\* list here.  breakpoint() (line 250) hands control to a debugger and
\* changes nothing.
prompt_list_wrap(img_embeds, atts_img, str_embeds, atts_str, prompt, side) ==
    IF prompt # <<>>
    THEN LET splits == [b \in 1..Len(prompt) |-> ReSplit(prompt[b])]
         IN  IF \E b \in 1..Len(prompt) : ~FormatOk(splits[b])
             THEN Raise("format")
             ELSE
             LET p_before_tokens ==
                     Tokenizer([b \in 1..Len(prompt) |-> splits[b][1]],
                               FALSE, FALSE, FALSE, 0, side)
                 p_between_tokens ==
                     Tokenizer([b \in 1..Len(prompt) |-> splits[b][3]],
                               FALSE, FALSE, FALSE, 0, side)
                 p_after_tokens ==
                     Tokenizer([b \in 1..Len(prompt) |-> splits[b][5]],
                               TRUE, TRUE, FALSE, 0, side)
             IN  IF ~p_before_tokens.ok \/ ~p_between_tokens.ok
                 THEN Raise("tensor")
                 ELSE
                 LET pieces == EmbedPieces(embed_tokens(p_before_tokens.input_ids),
                                           img_embeds,
                                           embed_tokens(p_between_tokens.input_ids),
                                           str_embeds,
                                           embed_tokens(p_after_tokens.input_ids))
                     masks == MaskPieces(p_before_tokens.attention_mask,
                                         atts_img,
                                         p_between_tokens.attention_mask,
                                         atts_str,
                                         p_after_tokens.attention_mask)
                 IN  [raised |-> "none", embeds |-> CatDim1(pieces),
                      atts |-> CatDim1(masks), pieces |-> pieces, masks |-> masks]
    ELSE [raised |-> "none",
          embeds |-> CatDim1(NoPromptPieces(img_embeds, str_embeds)),
          atts |-> CatDim1(NoPromptPieces(atts_img, atts_str)),
          pieces |-> NoPromptPieces(img_embeds, str_embeds),
          masks |-> NoPromptPieces(atts_img, atts_str)]

(***************************************************************************)
(* forward.                                                                *)
(***************************************************************************)
\* self.alphafold.predict_structure: one structure per sequence, on a residue
\* axis as long as the longest sequence; the padding mask tells the residues
\* of a sequence from the positions that fill its row up
predict_structure(seqs) ==
    [coords |-> [b \in 1..Len(seqs) |-> [i \in 1..MaxRowLen(seqs) |-> i]],
     padding_mask |-> [b \in 1..Len(seqs) |->
                        [i \in 1..MaxRowLen(seqs) |-> i <= Len(seqs[b])]]]

\* reconstruct_protein: the structures of the batch, concatenated along the
\* batch axis
reconstruct_protein(seqs) == predict_structure(seqs)

\* MaskedFill as it would be if the pad positions were left as they are
MaskedFillNothing(ids) == ids

\* input_ids.masked_fill(input_ids == pad_token_id, -100)
MaskedFill(ids) ==
    [b \in 1..Len(ids) |->
        [i \in 1..Len(ids[b]) |->
            IF ids[b][i] = pad_token_id THEN IgnoreIndex ELSE ids[b][i]]]

\* EmptyTargetsLen as it would be without the position of the bos token
EmptyTargetsLenNoBos(atts_img) == Shape1(atts_img)

\* the second dimension of empty_targets
EmptyTargetsLen(atts_img) == Shape1(atts_img) + 1

\* torch.ones([rows, cols]).fill_(-100)
EmptyTargets(atts_img) ==
    [b \in 1..Len(atts_img) |-> Fill(EmptyTargetsLen(atts_img), IgnoreIndex)]

\* atts_img[:, :1]
FirstColumn(t) == [b \in 1..Len(t) |-> SubSeq(t[b], 1, 1)]

\* the language model in teacher-forced mode: with frozen weights the loss is
\* a function of what it is given
llama_model(inputs_embeds, attention_mask, labels) ==
    [loss |-> <<inputs_embeds, attention_mask, labels>>]

\* the padding side the target text is tokenized with (line 289)
TargetPaddingSide(side) == "right"

forward(s, side) ==
    LET tokens == reconstruct_protein(s.seq)
        str == encode_str(tokens)
        protein == encode_protein(s.seq)
        wrapped == prompt_list_wrap(protein.inputs_llama, protein.atts_llama,
                                    str.str_embeds, str.atts_llama, s.prompt, side)
    IN  IF wrapped.raised # "none"
        THEN [op |-> "forward", raised |-> wrapped.raised, padding_side |-> side,
              suffix_side |-> side, wrapped |-> wrapped]
        ELSE
        LET img_embeds == wrapped.embeds
            atts_img == wrapped.atts
            side2 == TargetPaddingSide(side)
            text == [b \in 1..Len(s.text_input) |-> Append(s.text_input[b], end_sym)]
            to_regress_tokens == Tokenizer(text, FALSE, TRUE, TRUE, max_txt_len, side2)
            text_targets == MaskedFill(to_regress_tokens.input_ids)
            empty_targets == EmptyTargets(atts_img)
            targets == CatDim1(<<empty_targets, text_targets>>)
            bos == [b \in 1..Len(img_embeds) |-> <<bos_token_id>>]
            bos_embeds == embed_tokens(bos)
            atts_bos == FirstColumn(atts_img)
            to_regress_embeds == embed_tokens(to_regress_tokens.input_ids)
            inputs_embeds == CatDim1(<<bos_embeds, img_embeds, to_regress_embeds>>)
            attention_mask == CatDim1(<<atts_bos, atts_img, to_regress_tokens.attention_mask>>)
            outputs == llama_model(inputs_embeds, attention_mask, targets)
        IN  [op |-> "forward", raised |-> "none", padding_side |-> side2,
             suffix_side |-> side, wrapped |-> wrapped,
             to_regress_ids |-> to_regress_tokens.input_ids,
             text_targets |-> text_targets,
             empty_targets |-> empty_targets,
             targets |-> targets,
             inputs_embeds |-> inputs_embeds,
             attention_mask |-> attention_mask,
             loss |-> outputs.loss]

(***************************************************************************)
(* Inputs.                                                                 *)
(***************************************************************************)
Sides == {"left", "right"}

Prompts == SeqsUpTo({"a", proteinHere, structureHere}, MaxPromptLen)
Texts == SeqsUpTo(Words, MaxTextLen)
ProteinSeqs == {[i \in 1..n |-> "M"] : n \in 1..MaxSeqLen}

RECURSIVE TotalLen(_)
TotalLen(rows) == IF rows = <<>> THEN 0 ELSE Len(Head(rows)) + TotalLen(Tail(rows))

\* the prompt lists of a batch
PromptLists(B) == {ps \in [1..B -> Prompts] : TotalLen(ps) <= MaxBatchPromptLen}

WellFormed(p) == FormatOk(ReSplit(p))

\* the prompt lists forward is driven with: well-formed prompts and the
\* shortest malformed ones
ForwardPromptLists(B) ==
    {ps \in PromptLists(B) : \A b \in 1..B : WellFormed(ps[b]) \/ Len(ps[b]) <= 1}

\* structure tuples of a batch: coords names the residue, the confidence
\* tensor has the shape of coords and is left out
StrTokens(B) ==
    UNION {[coords : {[b \in 1..B |-> [i \in 1..L |-> i]]},
            padding_mask : [1..B -> [1..L -> BOOLEAN]]] : L \in 1..MaxSeqLen}

NoCall == [op |-> "init", raised |-> "none"]

TypeOK ==
    /\ padding_side \in Sides
    /\ out.op \in {"init", "encode_str", "encode_protein", "prompt_list_wrap", "forward"}
    /\ Len(first) <= 1

\* the state after construction, the arguments of the calls chosen.  The
\* padding side is the one LlamaTokenizer.from_pretrained finds in the
\* tokenizer files of llama_model (line 106); __init__ does not set it.
Init ==
    /\ \E B \in BatchSizes :
        /\ samples \in [seq : [1..B -> ProteinSeqs],
                        prompt : {<<>>} \cup PromptLists(B),
                        text_input : {[b \in 1..B |-> <<>>]}]
        /\ str_tokens \in StrTokens(B)
    /\ padding_side \in Sides
    /\ out = NoCall
    /\ first = <<>>

\* the same for the calls of forward, the structure tuple being the one
\* reconstruct_protein yields for the sequences
InitForward ==
    /\ \E B \in BatchSizes :
        /\ samples \in [seq : [1..B -> ProteinSeqs],
                        prompt : {<<>>} \cup ForwardPromptLists(B),
                        text_input : [1..B -> Texts]]
    /\ str_tokens = reconstruct_protein(samples.seq)
    /\ padding_side \in Sides
    /\ out = NoCall
    /\ first = <<>>

(***************************************************************************)
(* The calls.                                                              *)
(***************************************************************************)
EncodeStr ==
    /\ out' = [op |-> "encode_str", raised |-> "none", res |-> encode_str(str_tokens)]
    /\ UNCHANGED <<samples, str_tokens, padding_side, first>>

EncodeProtein ==
    /\ out' = [op |-> "encode_protein", raised |-> "none", res |-> encode_protein(samples.seq)]
    /\ UNCHANGED <<samples, str_tokens, padding_side, first>>

PromptListWrap ==
    LET str == encode_str(str_tokens)
        protein == encode_protein(samples.seq)
    IN  /\ out' = [op |-> "prompt_list_wrap",
                   raised |-> "none",
                   res |-> prompt_list_wrap(protein.inputs_llama, protein.atts_llama,
                                            str.str_embeds, str.atts_llama,
                                            samples.prompt, padding_side)]
        /\ UNCHANGED <<samples, str_tokens, padding_side, first>>

Forward ==
    LET r == forward(samples, padding_side)
    IN  /\ out' = r
        /\ padding_side' = r.padding_side
        /\ first' = IF first = <<>> THEN <<r>> ELSE first
        /\ UNCHANGED <<samples, str_tokens>>

Next == EncodeStr \/ EncodeProtein \/ PromptListWrap

Spec == Init /\ [][Next]_vars

NextForward == Forward

SpecForward == InitForward /\ [][NextForward]_vars

(***************************************************************************)
(* Properties of encode_str, encode_protein and prompt_list_wrap (Spec).   *)
(***************************************************************************)
Count(p, m) == Cardinality({i \in 1..Len(p) : p[i] = m})

\* a prompt with exactly one '<proteinHere>' and exactly one
\* '<structureHere>', '<proteinHere>' first
OneEachInOrder(p) ==
    /\ Count(p, proteinHere) = 1
    /\ Count(p, structureHere) = 1
    /\ \E i, j \in 1..Len(p) : i < j /\ p[i] = proteinHere /\ p[j] = structureHere

Wrapped == out.op = "prompt_list_wrap"
Returned == out.raised = "none" /\ out.res.raised = "none"
Batch == 1..Len(samples.seq)

SameShape(embeds, atts) ==
    /\ Len(embeds) = Len(atts)
    /\ \A b \in 1..Len(embeds) : Len(embeds[b]) = Len(atts[b])

RECURSIVE SumLen(_, _)
\* the lengths of row b of the pieces, added up
SumLen(pieces, b) ==
    IF pieces = <<>> THEN 0 ELSE Len(Head(pieces)[b]) + SumLen(Tail(pieces), b)

\* C1: for every batch of prompts each holding exactly one '<proteinHere>'
\* and exactly one '<structureHere>', '<proteinHere>' first, prompt_list_wrap
\* does not raise, and the length of the returned embeddings is the sum of
\* the lengths of prefix, sequence block, middle, structure block and suffix.
C1_WellFormedNeverRaises ==
    (/\ Wrapped
     /\ samples.prompt # <<>>
     /\ \A b \in Batch : OneEachInOrder(samples.prompt[b]))
    => /\ out.res.raised = "none"
       /\ Len(out.res.pieces) = 5
       /\ \A b \in Batch : Len(out.res.embeds[b]) = SumLen(out.res.pieces, b)

\* C2: whenever a prompt of the list is malformed (a placeholder missing, a
\* placeholder more than once, or '<structureHere>' before '<proteinHere>'),
\* prompt_list_wrap raises the format error and returns no embeddings.
C2_MalformedRaises ==
    (/\ Wrapped
     /\ \E b \in 1..Len(samples.prompt) : ~OneEachInOrder(samples.prompt[b]))
    => /\ out.res.raised = "format"
       /\ out.res.embeds = <<>>
       /\ out.res.atts = <<>>

\* a malformed prompt after a well-formed one, '<structureHere>' first
C2_Witness ==
    /\ Wrapped
    /\ Len(samples.prompt) = 2
    /\ OneEachInOrder(samples.prompt[1])
    /\ samples.prompt[2] = <<structureHere, proteinHere>>
    /\ out.res.raised = "format"

\* what the three text segments of the prompts tokenize to
PromptSegment(k, add_special_tokens, padding) ==
    Tokenizer([b \in 1..Len(samples.prompt) |-> ReSplit(samples.prompt[b])[k]],
              add_special_tokens, padding, FALSE, 0, padding_side)

\* the attention value that describes one embedding vector of row b
Describes(vector, b, att) ==
    CASE vector[1] = "seq" -> att = 1
      [] vector[1] = "str" -> att = (IF str_tokens.padding_mask[b][vector[2]] THEN 1 ELSE 0)
      [] vector[1] = "tok" -> att = (IF vector[2] = pad_token_id THEN 0 ELSE 1)

\* C6: with a prompt, prompt_list_wrap concatenates along the sequence axis
\* the prefix embedding, the sequence block, the middle embedding, the
\* structure block and the suffix embedding, in this order; the mask is the
\* concatenation of the five masks in the same order, so that each mask
\* position describes the embedding at the same position.
C6_FivePiecesInOrder ==
    (Wrapped /\ samples.prompt # <<>> /\ Returned)
    => LET before == PromptSegment(1, FALSE, FALSE)
           between == PromptSegment(3, FALSE, FALSE)
           after == PromptSegment(5, TRUE, TRUE)
           protein == encode_protein(samples.seq)
           str == encode_str(str_tokens)
       IN  \A b \in Batch :
            /\ out.res.embeds[b] =
                    embed_tokens(before.input_ids)[b] \o protein.inputs_llama[b]
                    \o embed_tokens(between.input_ids)[b] \o str.str_embeds[b]
                    \o embed_tokens(after.input_ids)[b]
            /\ out.res.atts[b] =
                    before.attention_mask[b] \o protein.atts_llama[b]
                    \o between.attention_mask[b] \o str.atts_llama[b]
                    \o after.attention_mask[b]
            /\ Len(out.res.atts[b]) = Len(out.res.embeds[b])
            /\ \A i \in 1..Len(out.res.embeds[b]) :
                    Describes(out.res.embeds[b][i], b, out.res.atts[b][i])

\* one prompt with a prefix, a middle and a suffix around the two blocks
C6_Witness ==
    /\ Wrapped /\ Returned
    /\ samples.prompt = << <<"a", proteinHere, "a", structureHere, "a">> >>
    /\ Len(out.res.embeds[1]) = 8
    /\ out.res.embeds[1][1][1] = "tok"
    /\ out.res.embeds[1][2][1] = "seq"
    /\ out.res.embeds[1][6][1] = "str"

\* C7: every embedding block (of encode_protein, of encode_str, of
\* prompt_list_wrap with or without a prompt) comes with an attention mask of
\* the same batch size and the same sequence length.
C7_MaskMatchesBlock ==
    /\ out.op = "encode_protein" => SameShape(out.res.inputs_llama, out.res.atts_llama)
    /\ out.op = "encode_str" => SameShape(out.res.str_embeds, out.res.atts_llama)
    /\ (Wrapped /\ Returned) =>
            /\ SameShape(out.res.embeds, out.res.atts)
            /\ Len(out.res.embeds) = Len(samples.seq)

\* a fused block of two rows, from a prompt whose suffix is padded
C7_Witness ==
    /\ Wrapped /\ Returned
    /\ Len(samples.prompt) = 2
    /\ Len(out.res.embeds) = 2
    /\ Len(out.res.embeds[1]) > 5
    /\ \E i \in 1..Len(out.res.atts[2]) : out.res.atts[2][i] = 0

\* C8: the mask of encode_protein is all ones; the mask of encode_str is the
\* padding mask itself as 0/1, not inverted, while the structure encoder is
\* given the inverse of the padding mask: a position the padding mask marks
\* has attention value 1 in the structure block.
C8_ModalityMasks ==
    /\ out.op = "encode_protein" =>
            \A b \in 1..Len(out.res.atts_llama) :
                \A i \in 1..Len(out.res.atts_llama[b]) : out.res.atts_llama[b][i] = 1
    /\ out.op = "encode_str" =>
            \A b \in 1..Len(str_tokens.padding_mask) :
                \A i \in 1..Len(str_tokens.padding_mask[b]) :
                    /\ out.res.atts_llama[b][i] \in {0, 1}
                    /\ (out.res.atts_llama[b][i] = 1) = str_tokens.padding_mask[b][i]
                    /\ out.res.encoder_padding_mask[b][i] = ~str_tokens.padding_mask[b][i]

\* a padding mask that marks one position and not another
C8_Witness ==
    /\ out.op = "encode_str"
    /\ \E b \in Batch : \E i \in 1..Len(str_tokens.padding_mask[b]) :
            str_tokens.padding_mask[b][i] /\ out.res.atts_llama[b][i] = 1
    /\ \E b \in Batch : \E i \in 1..Len(str_tokens.padding_mask[b]) :
            ~str_tokens.padding_mask[b][i] /\ out.res.atts_llama[b][i] = 0

\* C9: with no prompt (None or an empty list) prompt_list_wrap returns the
\* sequence block followed by the structure block, the mask being the
\* sequence mask followed by the structure mask; no text embedding is added
\* and no format error is raised.
C9_NoPromptTwoBlocks ==
    (Wrapped /\ samples.prompt = <<>>)
    => LET protein == encode_protein(samples.seq)
           str == encode_str(str_tokens)
       IN  /\ out.res.raised = "none"
           /\ \A b \in Batch :
                /\ out.res.embeds[b] = protein.inputs_llama[b] \o str.str_embeds[b]
                /\ out.res.atts[b] = protein.atts_llama[b] \o str.atts_llama[b]
                /\ \A i \in 1..Len(out.res.embeds[b]) : out.res.embeds[b][i][1] # "tok"

\* no prompt, two rows, a structure mask that is not all ones
C9_Witness ==
    /\ Wrapped /\ samples.prompt = <<>>
    /\ Len(out.res.embeds) = 2
    /\ out.res.embeds[1][1] = <<"seq", 1>>
    /\ \E b \in Batch : \E i \in 1..Len(out.res.atts[b]) : out.res.atts[b][i] = 0

(***************************************************************************)
(* Properties of forward (SpecForward).                                    *)
(***************************************************************************)
Forwarded == out.op = "forward"
ForwardReturned == Forwarded /\ out.raised = "none"

\* where the target-text part of row b of the labels begins
TextOffset(b) == Len(out.targets[b]) - Len(out.to_regress_ids[b])

\* C3: in the label tensor given to the language model, every position of
\* the target-text part whose token id is the pad token id holds -100, and
\* every other target-text position holds its token id.
C3_PadLabelsIgnored ==
    ForwardReturned
    => \A b \in Batch :
        /\ TextOffset(b) >= 0
        /\ \A i \in 1..Len(out.to_regress_ids[b]) :
            out.targets[b][TextOffset(b) + i] =
                (IF out.to_regress_ids[b][i] = pad_token_id
                 THEN -100 ELSE out.to_regress_ids[b][i])

\* two target texts of unequal length, the shorter one padded: a pad
\* position holds -100 and a word keeps its id
C3_Witness ==
    /\ ForwardReturned
    /\ samples.text_input = << <<"a">>, <<>> >>
    /\ out.to_regress_ids[2][2] = pad_token_id
    /\ out.targets[2][Len(out.targets[2])] = -100
    /\ out.targets[1][Len(out.targets[1]) - 1] = Vocab("a")

\* C4: the block of -100 put before the target labels has length (length of
\* the fused prompt embedding) + 1, so that the labels are as long as the
\* concatenation of bos embedding, fused embedding and target embedding.
C4_IgnorePrefixLength ==
    ForwardReturned
    => \A b \in Batch :
        /\ Len(out.empty_targets[b]) = Len(out.wrapped.embeds[b]) + 1
        /\ \A i \in 1..Len(out.empty_targets[b]) : out.targets[b][i] = -100
        /\ Len(out.targets[b]) = Len(out.inputs_embeds[b])
        /\ Len(out.targets[b]) = Len(out.empty_targets[b]) + Len(out.to_regress_ids[b])

\* a forward call with a prompt of five pieces
C4_Witness ==
    /\ ForwardReturned
    /\ samples.prompt = << <<"a", proteinHere, "a", structureHere, "a">> >>
    /\ Len(out.wrapped.embeds[1]) = 8
    /\ Len(out.empty_targets[1]) = 9

\* what a forward call hands back and what it gives the language model
Observed(r) ==
    IF r.raised = "none"
    THEN <<r.raised, r.wrapped.embeds, r.wrapped.atts, r.inputs_embeds,
           r.attention_mask, r.targets, r.loss>>
    ELSE <<r.raised>>

\* C5: two forward calls on one model instance with the same samples (the
\* first call after construction and any later call) produce the same
\* embeddings, attention masks, labels and loss.
C5_ForwardDeterministic ==
    (Forwarded /\ first # <<>>) => Observed(out) = Observed(first[1])

\* C10: in every forward call, the first one after construction included,
\* the tokenizer's padding side is 'right' when prompt_list_wrap tokenizes
\* the padded suffix segment, the side the target text is padded on.
C10_SuffixPaddedRight ==
    (ForwardReturned /\ samples.prompt # <<>>) => out.suffix_side = "right"

====
